---- MODULE Spec2Model ----
(***************************************************************************)
(* A model of skills/ops-analysis/scripts/pptx_to_md.py: the slide-to-     *)
(* markdown functions (get_slide_title, extract_paragraphs,                *)
(* extract_table_data, sanitize_markdown, paragraphs_to_markdown,          *)
(* table_to_markdown, get_shape_description, process_slide) and the batch  *)
(* driver (process_pptx_file, main).                                       *)
(*                                                                         *)
(* A Python str is a sequence of one-character strings, so that strip(),   *)
(* len(), replace(), "in" and join() are computed character by character.  *)
(* A shape is a record of what the code probes on it: shape_type,          *)
(* placeholder_format.type (ph_type), hasattr(shape, "text") (has_text),   *)
(* text_frame.paragraphs (paras), hasattr(shape, "table") (has_table),     *)
(* table.rows (rows) and name.  The font size extract_paragraphs records   *)
(* is read nowhere in the program and is left out.                         *)
(***************************************************************************)
EXTENDS Integers, Sequences, FiniteSets, TLC

VARIABLES
    \* ---- one call of process_slide, step by step ----
    slide,               \* the shapes of the slide being processed
    spc,                 \* position in process_slide
    title,               \* title = get_slide_title(slide)
    i,                   \* index of the next shape of the loop at line 214
    title_shape_found,   \* line 209
    content_sections,    \* line 210
    tables,              \* line 211
    other_shapes,        \* line 212
    slide_num,           \* the slide_num argument of process_slide
    slide_md,            \* the value process_slide returns
    \* ---- one process running main() (possibly several times) ----
    argv,                \* args.paths
    output,              \* args.output (NoOutput when the flag is absent)
    case_sensitive,      \* whether Path.glob matches case-sensitively here
    corrupt,             \* the files Presentation() cannot parse
    dirs,                \* directories that exist
    pc,                  \* position in main
    pptx_files,          \* the work list
    output_dir,          \* line 374 / 378
    fidx,                \* index of the next file of the loop at line 385
    success_count,       \* line 384
    exit_status,         \* process exit status (-1 while running)
    disk,                \* markdown files on disk: path -> content
    calls,               \* the calls of process_pptx_file, in order
    writes,              \* every write of a markdown file, in order
    errors,              \* files reported on the error stream by line 318
    run,                 \* number of the current invocation of the script
    hash_order           \* the str hash order of the current invocation

slideVars == <<slide, spc, title, i, title_shape_found, content_sections,
               tables, other_shapes, slide_num, slide_md>>
mainVars == <<argv, output, case_sensitive, corrupt, dirs, pc, pptx_files,
              output_dir, fidx, success_count, exit_status, disk, calls,
              writes, errors, run, hash_order>>
vars == <<slideVars, mainVars>>

(***************************************************************************)
(* Bounds of the model.                                                    *)
(***************************************************************************)
MaxShapes == 2      \* shapes per slide drawn by SlideInit
MaxArgs == 2        \* command-line paths drawn by Init
MaxRuns == 2        \* invocations of the script on the same input

(***************************************************************************)
(* Strings.                                                                *)
(***************************************************************************)
Rep(c, n) == [k \in 1..n |-> c]

Whitespace == {" ", "\n"}

RECURSIVE LStrip(_)
LStrip(s) ==
    IF s # <<>> /\ Head(s) \in Whitespace THEN LStrip(Tail(s)) ELSE s

RECURSIVE RStrip(_)
RStrip(s) ==
    IF s # <<>> /\ s[Len(s)] \in Whitespace
    THEN RStrip(SubSeq(s, 1, Len(s) - 1))
    ELSE s

\* str.strip()
Strip(s) == RStrip(LStrip(s))

\* sub in s
Contains(s, sub) ==
    \E k \in 0..(Len(s) - Len(sub)) : SubSeq(s, k + 1, k + Len(sub)) = sub

\* s.replace(c, by) for a one-character c
RECURSIVE Replace(_, _, _)
Replace(s, c, by) ==
    IF s = <<>> THEN <<>>
    ELSE IF Len(s) = 1 THEN (IF s[1] = c THEN by ELSE s)
    ELSE LET h == Len(s) \div 2
         IN  Replace(SubSeq(s, 1, h), c, by) \o Replace(SubSeq(s, h + 1, Len(s)), c, by)

\* sep.join(parts)
RECURSIVE Join(_, _)
Join(sep, parts) ==
    IF parts = <<>> THEN <<>>
    ELSE IF Len(parts) = 1 THEN parts[1]
    ELSE parts[1] \o sep \o Join(sep, Tail(parts))

Digit(d) == <<"0", "1", "2", "3", "4", "5", "6", "7", "8", "9">>[d + 1]

\* str(n) for n >= 0
RECURSIVE IntToStr(_)
IntToStr(n) ==
    IF n < 10 THEN <<Digit(n)>> ELSE IntToStr(n \div 10) \o <<Digit(n % 10)>>

Min(S) == CHOOSE x \in S : \A y \in S : x <= y

\* [f(x) for x in s]
Map(s, F(_)) == [k \in 1..Len(s) |-> F(s[k])]

\* [x for x in s if P(x)]
Filter(s, P(_)) ==
    LET F[k \in 0..Len(s)] ==
            IF k = 0 THEN <<>>
            ELSE IF P(s[k]) THEN Append(F[k - 1], s[k]) ELSE F[k - 1]
    IN  F[Len(s)]

(***************************************************************************)
(* What the parser library exposes of a shape.                             *)
(***************************************************************************)
\* shape.text: the paragraphs of the text frame joined by line breaks
ShapeText(shape) == Join(<<"\n">>, Map(shape.paras, LAMBDA p : p.text))

\* hasattr(shape, "text") and shape.text.strip()
HasText(shape) == shape.has_text /\ Strip(ShapeText(shape)) # <<>>

(***************************************************************************)
(* get_slide_title                                                         *)
(***************************************************************************)
\* The values of placeholder_format.type, named as the comment of line 34
\* names them: "14=Header, 15=Title, 1=Title (Centered)".  (The parser
\* library's own enumeration calls 1 TITLE, 2 BODY, 14 HEADER, 15 FOOTER.)
PH_TITLE_CENTERED == 1

PH_HEADER == 14
PH_TITLE == 15

\* pf.type in (14, 15)
TitleTypes == {PH_HEADER, PH_TITLE}

IsTitlePlaceholder(shape) ==
    /\ shape.shape_type = "PLACEHOLDER"
    /\ shape.ph_type \in TitleTypes
    /\ HasText(shape)

TitleMaxLen == 100

IsFallbackTitle(shape) ==
    /\ HasText(shape)
    /\ Len(Strip(ShapeText(shape))) < TitleMaxLen
    /\ ~Contains(Strip(ShapeText(shape)), <<"\n">>)

Untitled == <<"U", "n", "t", "i", "t", "l", "e", "d">>

get_slide_title(shapes) ==
    LET ph == {k \in 1..Len(shapes) : IsTitlePlaceholder(shapes[k])}
        fb == {k \in 1..Len(shapes) : IsFallbackTitle(shapes[k])}
    IN  IF ph # {} THEN Strip(ShapeText(shapes[Min(ph)]))
        ELSE IF fb # {} THEN Strip(ShapeText(shapes[Min(fb)]))
        ELSE Untitled

(***************************************************************************)
(* extract_paragraphs, extract_table_data, sanitize_markdown               *)
(***************************************************************************)
\* The shapes that have text have a text frame; a retained paragraph starts
\* without the used_as_header key (p.get("used_as_header") is None).
extract_paragraphs(shape) ==
    Map(Filter(shape.paras, LAMBDA p : Strip(p.text) # <<>>),
        LAMBDA p : [text |-> Strip(p.text), level |-> p.level,
                    is_bullet |-> p.is_bullet, used_as_header |-> FALSE])

extract_table_data(shape) ==
    IF ~shape.has_table THEN <<>>
    ELSE Map(shape.rows, LAMBDA row : Map(row, Strip))

sanitize_markdown(text) == Replace(text, "\\", <<"\\", "\\">>)

(***************************************************************************)
(* paragraphs_to_markdown                                                  *)
(***************************************************************************)
HeaderMaxLen == 80

ParaLine(para, base_level) ==
    LET text == sanitize_markdown(para.text)
        is_header == ~para.is_bullet /\ Len(text) < HeaderMaxLen
    IN  IF is_header THEN Rep("#", base_level) \o <<" ">> \o text
        ELSE IF para.is_bullet
             THEN Join(<<>>, Rep(<<" ", " ">>, para.level)) \o <<"*", " ">> \o text
             ELSE text

paragraphs_to_markdown(paragraphs, base_level) ==
    Join(<<"\n">>,
         Map(Filter(paragraphs, LAMBDA p : sanitize_markdown(p.text) # <<>>),
             LAMBDA p : ParaLine(p, base_level)))

(***************************************************************************)
(* table_to_markdown                                                       *)
(***************************************************************************)
\* sanitize_markdown(cell).replace("|", "\\|")
TableCell(cell) == Replace(sanitize_markdown(cell), "|", <<"\\", "|">>)

TableRow(row) ==
    <<"|", " ">> \o Join(<<" ", "|", " ">>, Map(row, TableCell)) \o <<" ", "|">>

table_to_markdown(table_data) ==
    IF table_data = <<>> \/ table_data[1] = <<>> THEN <<>>
    ELSE LET headers == table_data[1]
             sep == <<"|">> \o Join(<<"|">>, Rep(<<"-", "-", "-">>, Len(headers)))
                    \o <<"|">>
         IN  Join(<<"\n">>,
                  <<TableRow(headers), sep>> \o Map(Tail(table_data), TableRow))

(***************************************************************************)
(* get_shape_description                                                   *)
(***************************************************************************)
\* MSO_SHAPE_TYPE has members PICTURE, CHART, GROUP, LINE and AUTO_SHAPE; the
\* names OVAL, RECTANGLE and ROUNDED_RECTANGLE are not members of it, so the
\* loop of line 177 files their labels under the key None, the last one
\* written being "Rounded rectangle".
Descriptions(shape_type) ==
    CASE shape_type = "PICTURE" -> <<"I", "m", "a", "g", "e">>
      [] shape_type = "CHART" -> <<"C", "h", "a", "r", "t">>
      [] shape_type = "GROUP" -> <<"G", "r", "o", "u", "p", "e", "d", " ", "c", "o", "n", "t", "e", "n", "t">>
      [] shape_type = "LINE" -> <<"L", "i", "n", "e">>
      [] shape_type = "AUTO_SHAPE" -> <<"S", "h", "a", "p", "e">>
      [] shape_type = "None" -> <<"R", "o", "u", "n", "d", "e", "d", " ", "r", "e", "c", "t", "a", "n", "g", "l", "e">>
      [] OTHER -> <<>>

\* str(shape.shape_type) of the members the dictionary lacks
ShapeTypeStr(shape_type) ==
    CASE shape_type = "PLACEHOLDER" -> <<"P", "L", "A", "C", "E", "H", "O", "L", "D", "E", "R", " ", "(", "1", "4", ")">>
      [] shape_type = "TEXT_BOX" -> <<"T", "E", "X", "T", "_", "B", "O", "X", " ", "(", "1", "7", ")">>
      [] shape_type = "TABLE" -> <<"T", "A", "B", "L", "E", " ", "(", "1", "9", ")">>
      [] OTHER -> <<"M", "E", "D", "I", "A", " ", "(", "1", "6", ")">>

get_shape_description(shape) ==
    LET known == Descriptions(shape.shape_type)
        desc == IF known # <<>> THEN known
                ELSE <<"S", "h", "a", "p", "e", " ", "t", "y", "p", "e", " ">> \o ShapeTypeStr(shape.shape_type)
    IN  IF shape.name # <<>> THEN desc \o <<" ", "(">> \o shape.name \o <<")">>
        ELSE desc

(***************************************************************************)
(* process_slide                                                           *)
(***************************************************************************)
SectionTitleMaxLen == 50

\* section_title = None; None and "" are both false at line 257, and the
\* text of a retained paragraph is never empty.
NoTitle == <<>>

IsSectionHeader(para) == ~para.is_bullet /\ Len(para.text) < SectionTitleMaxLen

\* lines 243-253: the first paragraph that qualifies names the section and is
\* marked used_as_header
MakeSection(paragraphs) ==
    LET hs == {k \in 1..Len(paragraphs) : IsSectionHeader(paragraphs[k])}
    IN  IF hs = {} THEN [title |-> NoTitle, paragraphs |-> paragraphs]
        ELSE [title |-> paragraphs[Min(hs)].text,
              paragraphs |-> [paragraphs EXCEPT ![Min(hs)].used_as_header = TRUE]]

\* IsTitleDuplicate with the length limit applied to the equality test too
IsTitleDuplicateShortOnly(shape_text, t) ==
    Len(shape_text) < TitleMaxLen /\ (shape_text = t \/ Contains(t, shape_text))

\* line 230
IsTitleDuplicate(shape_text, t) ==
    shape_text = t \/ (Len(shape_text) < TitleMaxLen /\ Contains(t, shape_text))

\* lines 216-219
HasContent(shape) == HasText(shape) \/ shape.has_table

\* LoopBody without the continue of line 232
LoopBodyNoContinue(st, shape, t) ==
    IF ~HasContent(shape)
    THEN [st EXCEPT !.other_shapes = Append(@, get_shape_description(shape))]
    ELSE LET found == \/ st.title_shape_found
                      \/ (shape.has_text /\ IsTitleDuplicate(Strip(ShapeText(shape)), t))
             st1 == [st EXCEPT !.title_shape_found = found]
         IN  IF shape.has_table
             THEN (IF extract_table_data(shape) # <<>>
                   THEN [st1 EXCEPT !.tables = Append(@, extract_table_data(shape))]
                   ELSE st1)
             ELSE (IF extract_paragraphs(shape) # <<>>
                   THEN [st1 EXCEPT !.content_sections =
                                        Append(@, MakeSection(extract_paragraphs(shape)))]
                   ELSE st1)

\* One iteration of the loop of line 214 on the loop state st =
\* [title_shape_found, content_sections, tables, other_shapes].
LoopBody(st, shape, t) ==
    IF ~HasContent(shape)
    THEN [st EXCEPT !.other_shapes = Append(@, get_shape_description(shape))]
    ELSE IF /\ ~st.title_shape_found
            /\ shape.has_text
            /\ IsTitleDuplicate(Strip(ShapeText(shape)), t)
    THEN [st EXCEPT !.title_shape_found = TRUE]
    ELSE IF shape.has_table
    THEN LET table_data == extract_table_data(shape)
         IN  IF table_data # <<>>
             THEN [st EXCEPT !.tables = Append(@, table_data)]
             ELSE st
    ELSE LET paragraphs == extract_paragraphs(shape)
         IN  IF paragraphs # <<>>
             THEN [st EXCEPT !.content_sections = Append(@, MakeSection(paragraphs))]
             ELSE st

LoopInit ==
    [title_shape_found |-> FALSE, content_sections |-> <<>>,
     tables |-> <<>>, other_shapes |-> <<>>]

\* the whole loop of line 214
RECURSIVE RunLoop(_, _, _)
RunLoop(shapes, k, t) ==
    IF k = 0 THEN LoopInit ELSE LoopBody(RunLoop(shapes, k - 1, t), shapes[k], t)

\* lines 256-266
SectionLines(section) ==
    LET content_paras == Filter(section.paragraphs, LAMBDA p : ~p.used_as_header)
    IN  (IF section.title # <<>>
         THEN <<<<"\n", "#", "#", " ">> \o sanitize_markdown(section.title)>>
         ELSE <<>>)
        \o (IF content_paras # <<>>
            THEN <<paragraphs_to_markdown(content_paras, 3)>>
            ELSE <<>>)
        \o << <<>> >>

\* lines 269-272
TableLines(table_data) ==
    <<<<"\n", "#", "#", " ", "D", "a", "t", "a", " ", "T", "a", "b", "l", "e", "\n">>, table_to_markdown(table_data), <<>> >>

\* lines 275-279; order is the order in which set(other_shapes) is iterated
VisualLines(order) ==
    IF order = <<>> THEN <<>>
    ELSE <<<<"\n", "#", "#", " ", "V", "i", "s", "u", "a", "l", " ", "E", "l", "e", "m", "e", "n", "t", "s", "\n">>>> \o Map(order, LAMBDA desc : <<"-", " ">> \o desc) \o << <<>> >>

RECURSIVE Flatten(_)
Flatten(ss) == IF ss = <<>> THEN <<>> ELSE Head(ss) \o Flatten(Tail(ss))

\* line 206
SlideHeading(t, num) ==
    <<"\n", "#", " ", "S", "l", "i", "d", "e", " ">> \o IntToStr(num) \o <<" ", "-", " ">> \o t \o <<"\n">>

\* lines 206 and 255-281
RenderSlide(t, num, st, order) ==
    Join(<<"\n">>,
         <<SlideHeading(t, num)>>
         \o Flatten(Map(st.content_sections, SectionLines))
         \o Flatten(Map(st.tables, TableLines))
         \o VisualLines(order))

Range(s) == {s[k] : k \in 1..Len(s)}

\* The orders in which "for desc in set(other_shapes)" can run: the iteration
\* order of a set of str depends on the hash seed of the process, which
\* differs from one run of the interpreter to the next.
SetOrders(descs) ==
    {o \in [1..Cardinality(Range(descs)) -> Range(descs)] :
        \A a, b \in DOMAIN o : a # b => o[a] # o[b]}

(***************************************************************************)
(* The shapes and slides process_slide is run on.                          *)
(***************************************************************************)
Para(text, level, is_bullet) ==
    [text |-> text, level |-> level, is_bullet |-> is_bullet]

Plain(text) == Para(text, 0, FALSE)

TextShape(shape_type, ph_type, paras, name) ==
    [shape_type |-> shape_type, ph_type |-> ph_type, has_text |-> TRUE,
     paras |-> paras, has_table |-> FALSE, rows |-> <<>>, name |-> name]

TableShape(rows) ==
    [shape_type |-> "TABLE", ph_type |-> 0, has_text |-> FALSE,
     paras |-> <<>>, has_table |-> TRUE, rows |-> rows, name |-> <<"t">>]

Graphic(shape_type, name) ==
    [shape_type |-> shape_type, ph_type |-> 0, has_text |-> FALSE,
     paras |-> <<>>, has_table |-> FALSE, rows |-> <<>>, name |-> name]

TitlePh == TextShape("PLACEHOLDER", PH_TITLE_CENTERED, <<Plain(<<"Q", "1">>)>>, <<"T">>)
HeaderPh == TextShape("PLACEHOLDER", PH_HEADER, <<Plain(Rep("a", 100))>>, <<"H">>)
Ph15 == TextShape("PLACEHOLDER", PH_TITLE, <<Plain(<<" ", "a", "\\", "b", " ">>)>>, <<>>)
BodyPh ==
    TextShape("PLACEHOLDER", 2,
              <<Para(<<"a", "b">>, 0, TRUE), Para(<<"a", "|", "b">>, 1, TRUE)>>, <<"B">>)
BoxQ == TextShape("TEXT_BOX", 0, <<Plain(<<"Q">>)>>, <<>>)
BoxQ1 == TextShape("TEXT_BOX", 0, <<Plain(<<"Q", "1">>)>>, <<>>)
BoxTwoLines == TextShape("TEXT_BOX", 0, <<Plain(<<"a">>), Plain(<<"b">>)>>, <<>>)
Box79 == TextShape("TEXT_BOX", 0, <<Plain(Rep("a", 78) \o <<"\\">>)>>, <<>>)
Box50 == TextShape("TEXT_BOX", 0, <<Plain(Rep("c", 49)), Plain(Rep("c", 50))>>, <<>>)
BoxMix ==
    TextShape("AUTO_SHAPE", 0,
              <<Para(<<"d", "\\">>, 2, TRUE), Plain(<<" ">>), Plain(<<"a", "b">>),
                Plain(<<"c", "d">>), Plain(Rep("e", 80))>>, <<>>)
BoxBlank == TextShape("TEXT_BOX", 0, <<Plain(<<" ">>)>>, <<>>)
PicP == Graphic("PICTURE", <<"p">>)
Pic == Graphic("PICTURE", <<>>)
LineBs == Graphic("LINE", <<"a", "\\">>)
Media == Graphic("MEDIA", <<>>)
Table22 ==
    TableShape(<< <<<<" ", "A">>, <<"B">>>>, <<<<"C", "|", "D">>, <<"E", "\\">>>> >>)
TableNoRows == TableShape(<<>>)
TableNoCells == TableShape(<< <<>> >>)

ShapePool ==
    {TitlePh, HeaderPh, Ph15, BodyPh, BoxQ, BoxQ1, BoxTwoLines, Box79, Box50,
     BoxMix, BoxBlank, PicP, Pic, LineBs, Media, Table22, TableNoRows,
     TableNoCells}

Slides == UNION {[1..n -> ShapePool] : n \in 0..MaxShapes}

SlideNums == {1, 10}

(***************************************************************************)
(* One call of process_slide.                                              *)
(***************************************************************************)
LoopState ==
    [title_shape_found |-> title_shape_found, content_sections |-> content_sections,
     tables |-> tables, other_shapes |-> other_shapes]

\* the main() variables while only process_slide is exercised
MainIdle ==
    /\ argv = <<>> /\ output = "" /\ case_sensitive = TRUE /\ corrupt = {}
    /\ dirs = {} /\ pc = "idle" /\ pptx_files = <<>> /\ output_dir = ""
    /\ fidx = 0 /\ success_count = 0 /\ exit_status = -1 /\ disk = {}
    /\ calls = <<>> /\ writes = <<>> /\ errors = <<>> /\ run = 0
    /\ hash_order = <<>>

SlideInit ==
    /\ slide \in Slides
    /\ slide_num \in SlideNums
    /\ spc = "title"
    /\ title = <<>>
    /\ i = 1
    /\ title_shape_found = FALSE
    /\ content_sections = <<>>
    /\ tables = <<>>
    /\ other_shapes = <<>>
    /\ slide_md = <<>>
    /\ MainIdle

\* line 205
GetTitle ==
    /\ spc = "title"
    /\ title' = get_slide_title(slide)
    /\ spc' = "loop"
    /\ UNCHANGED <<slide, slide_num, i, title_shape_found, content_sections,
                   tables, other_shapes, slide_md, mainVars>>

\* lines 214-253, one shape
LoopStep ==
    /\ spc = "loop"
    /\ i <= Len(slide)
    /\ LET st == LoopBody(LoopState, slide[i], title)
       IN  /\ title_shape_found' = st.title_shape_found
           /\ content_sections' = st.content_sections
           /\ tables' = st.tables
           /\ other_shapes' = st.other_shapes
    /\ i' = i + 1
    /\ UNCHANGED <<slide, slide_num, spc, title, slide_md, mainVars>>

\* lines 255-281
Render ==
    /\ spc = "loop"
    /\ i > Len(slide)
    /\ \E order \in SetOrders(other_shapes) :
           slide_md' = RenderSlide(title, slide_num, LoopState, order)
    /\ spc' = "done"
    /\ UNCHANGED <<slide, slide_num, title, i, title_shape_found,
                   content_sections, tables, other_shapes, mainVars>>

SlideNext == GetTitle \/ LoopStep \/ Render

SlideSpec == SlideInit /\ [][SlideNext]_vars

(***************************************************************************)
(* The file system and command lines main() is run on.  A path is named by *)
(* its string; Parent, Stem and Suffix are the parts pathlib gives it.     *)
(***************************************************************************)
RegularFiles == {"d1/x.pptx", "d1/y.PPTX", "d2/x.pptx", "d2/n.txt"}

Parent(p) == IF p \in {"d1/x.pptx", "d1/y.PPTX"} THEN "d1" ELSE "d2"

Stem(p) ==
    CASE p \in {"d1/x.pptx", "d2/x.pptx"} -> <<"x">>
      [] p = "d1/y.PPTX" -> <<"y">>
      [] OTHER -> <<"n">>

Suffix(p) ==
    CASE p \in {"d1/x.pptx", "d2/x.pptx"} -> <<".", "p", "p", "t", "x">>
      [] p = "d1/y.PPTX" -> <<".", "P", "P", "T", "X">>
      [] OTHER -> <<".", "t", "x", "t">>

\* pptx_path.name
Name(p) == Stem(p) \o Suffix(p)

\* the entries of a directory, in the order the file system lists them
DirListing(d) ==
    CASE d = "d1" -> <<"d1/x.pptx", "d1/y.PPTX">>
      [] d = "d2" -> <<"d2/x.pptx", "d2/n.txt">>
      [] OTHER -> <<>>

\* what Presentation() reads from a file it can parse
Pres(p) ==
    CASE p = "d1/x.pptx" -> << <<TitlePh, BodyPh>> >>
      [] p = "d1/y.PPTX" -> << <<PicP, Pic>> >>
      [] OTHER -> << <<BoxQ1>>, <<Table22>> >>

ArgPool == RegularFiles \cup {"d1", "d2", "gone"}

\* args.output: NoOutput without the flag, else a directory that exists, a
\* directory that does not exist yet, or a path that is a regular file
NoOutput == ""
OutputPool == {NoOutput, "d2", "out", "d2/n.txt"}

PptxFiles == {"d1/x.pptx", "d1/y.PPTX", "d2/x.pptx"}

\* str.lower() on the characters of the suffixes
LowerChar(c) ==
    CASE c = "P" -> "p" [] c = "T" -> "t" [] c = "X" -> "x" [] OTHER -> c

Lower(s) == Map(s, LowerChar)

DotPptx == <<".", "p", "p", "t", "x">>
DotPPTX == <<".", "P", "P", "T", "X">>

\* path.glob("*" + ext)
Glob(d, ext, sensitive) ==
    Filter(DirListing(d),
           LAMBDA p : IF sensitive THEN Suffix(p) = ext
                      ELSE Lower(Suffix(p)) = Lower(ext))

\* lines 352-366 for one path
FilesOf(path, existing_dirs, sensitive) ==
    IF path \notin RegularFiles \cup existing_dirs THEN <<>>
    ELSE IF path \in RegularFiles
         THEN (IF Lower(Suffix(path)) = DotPptx THEN <<path>> ELSE <<>>)
         ELSE Glob(path, DotPptx, sensitive) \o Glob(path, DotPPTX, sensitive)

\* lines 349-366
Discovered(paths, existing_dirs, sensitive) ==
    Flatten(Map(paths, LAMBDA path : FilesOf(path, existing_dirs, sensitive)))

(***************************************************************************)
(* process_pptx_file                                                       *)
(***************************************************************************)
\* process_slide as a whole; order lists every description in the order the
\* hash seed of the process gives them
process_slide(shapes, num, order) ==
    LET t == get_slide_title(shapes)
        st == RunLoop(shapes, Len(shapes), t)
    IN  RenderSlide(t, num, st,
                    Filter(order, LAMBDA desc : desc \in Range(st.other_shapes)))

\* lines 294-305 and the join of line 312
Document(p, order) ==
    Join(<<"\n">>,
         <<<<"#", " ">> \o Stem(p) \o <<"\n">>,
           <<"*", "C", "o", "n", "v", "e", "r", "t", "e", "d", " ", "f", "r", "o", "m", " ">> \o Name(p) \o <<"*", "\n">>,
           <<"-", "-", "-", "\n">>>>
         \o [k \in 1..Len(Pres(p)) |-> process_slide(Pres(p)[k], k, order)])

\* line 308
MdFilename(p) == Stem(p) \o <<".", "m", "d">>

\* every description a decorative shape of the files can get
DescriptionsOf(shapes) ==
    Range(RunLoop(shapes, Len(shapes), get_slide_title(shapes)).other_shapes)

AllDescriptions ==
    UNION {UNION {DescriptionsOf(Pres(p)[k]) : k \in 1..Len(Pres(p))} :
           p \in PptxFiles}

HashOrders ==
    {o \in [1..Cardinality(AllDescriptions) -> AllDescriptions] :
        \A a, b \in DOMAIN o : a # b => o[a] # o[b]}

(***************************************************************************)
(* main                                                                    *)
(***************************************************************************)
\* ExitStatus with "some file converted" in place of "every file converted"
ExitStatusAnySuccess(count, total) == IF count > 0 THEN 0 ELSE 1

\* line 391
ExitStatus(count, total) == IF count = total THEN 0 ELSE 1

\* AfterFile of a loop that breaks at the first file that fails
AfterFileStopOnFailure(k, total, ok) == IF ok THEN k + 1 ELSE total + 1

\* the for loop of line 385 goes on to the next file whatever
\* process_pptx_file returned
AfterFile(k, total, ok) == k + 1

\* the process_slide variables while only main() is exercised
SlideIdle ==
    /\ slide = <<>> /\ spc = "idle" /\ title = <<>> /\ i = 0
    /\ title_shape_found = FALSE /\ content_sections = <<>> /\ tables = <<>>
    /\ other_shapes = <<>> /\ slide_num = 0 /\ slide_md = <<>>

Init ==
    /\ argv \in UNION {[1..n -> ArgPool] : n \in 1..MaxArgs}
    /\ output \in OutputPool
    /\ case_sensitive \in BOOLEAN
    /\ corrupt \in SUBSET PptxFiles
    /\ dirs = {"d1", "d2"}
    /\ pc = "discover"
    /\ pptx_files = <<>>
    /\ output_dir = ""
    /\ fidx = 0
    /\ success_count = 0
    /\ exit_status = -1
    /\ disk = {}
    /\ calls = <<>>
    /\ writes = <<>>
    /\ errors = <<>>
    /\ run = 1
    /\ hash_order \in HashOrders
    /\ SlideIdle

\* lines 349-366
Discover ==
    /\ pc = "discover"
    /\ pptx_files' = Discovered(argv, dirs, case_sensitive)
    /\ pc' = "check"
    /\ UNCHANGED <<argv, output, case_sensitive, corrupt, dirs, output_dir,
                   fidx, success_count, exit_status, disk, calls, writes,
                   errors, run, hash_order, slideVars>>

\* lines 368-370
NoFiles ==
    /\ pc = "check"
    /\ pptx_files = <<>>
    /\ exit_status' = 1
    /\ pc' = "done"
    /\ UNCHANGED <<argv, output, case_sensitive, corrupt, dirs, pptx_files,
                   output_dir, fidx, success_count, disk, calls, writes,
                   errors, run, hash_order, slideVars>>

\* line 378
DefaultOutputDir(files) == Parent(files[1])

\* lines 372-384
SetOutputDir ==
    /\ pc = "check"
    /\ pptx_files # <<>>
    /\ output \notin RegularFiles
    /\ IF output # NoOutput
       THEN output_dir' = output /\ dirs' = dirs \cup {output}
       ELSE output_dir' = DefaultOutputDir(pptx_files) /\ dirs' = dirs
    /\ success_count' = 0
    /\ fidx' = 1
    /\ pc' = "loop"
    /\ UNCHANGED <<argv, output, case_sensitive, corrupt, pptx_files,
                   exit_status, disk, calls, writes, errors, run, hash_order,
                   slideVars>>

\* line 375 when args.output names a regular file: mkdir raises
\* FileExistsError, nothing catches it and the interpreter exits with 1
MkdirFails ==
    /\ pc = "check"
    /\ pptx_files # <<>>
    /\ output \in RegularFiles
    /\ exit_status' = 1
    /\ pc' = "done"
    /\ UNCHANGED <<argv, output, case_sensitive, corrupt, dirs, pptx_files,
                   output_dir, fidx, success_count, disk, calls, writes,
                   errors, run, hash_order, slideVars>>

\* lines 385-387 for one file, with the call of process_pptx_file
ProcessFile ==
    /\ pc = "loop"
    /\ fidx <= Len(pptx_files)
    /\ LET f == pptx_files[fidx]
           ok == f \notin corrupt
           md == [dir |-> output_dir, name |-> MdFilename(f),
                  content |-> Document(f, hash_order)]
       IN  /\ calls' = Append(calls, f)
           /\ IF ok
              THEN /\ disk' = {e \in disk : ~(e.dir = md.dir /\ e.name = md.name)}
                              \cup {md}
                   /\ writes' = Append(writes, [src |-> f, run |-> run,
                                                dir |-> md.dir, name |-> md.name,
                                                content |-> md.content])
                   /\ success_count' = success_count + 1
                   /\ errors' = errors
              ELSE /\ errors' = Append(errors, f)
                   /\ UNCHANGED <<disk, writes, success_count>>
           /\ fidx' = AfterFile(fidx, Len(pptx_files), ok)
    /\ UNCHANGED <<argv, output, case_sensitive, corrupt, dirs, pc,
                   pptx_files, output_dir, exit_status, run, hash_order,
                   slideVars>>

\* lines 389-391
Finish ==
    /\ pc = "loop"
    /\ fidx > Len(pptx_files)
    /\ exit_status' = ExitStatus(success_count, Len(pptx_files))
    /\ pc' = "done"
    /\ UNCHANGED <<argv, output, case_sensitive, corrupt, dirs, pptx_files,
                   output_dir, fidx, success_count, disk, calls, writes,
                   errors, run, hash_order, slideVars>>

\* the script is run again with the same command line on the same file
\* system, in a new interpreter with a new hash seed
Rerun ==
    /\ pc = "done"
    /\ run < MaxRuns
    /\ run' = run + 1
    /\ hash_order' \in HashOrders
    /\ pc' = "discover"
    /\ pptx_files' = <<>>
    /\ output_dir' = ""
    /\ fidx' = 0
    /\ success_count' = 0
    /\ exit_status' = -1
    /\ calls' = <<>>
    /\ errors' = <<>>
    /\ UNCHANGED <<argv, output, case_sensitive, corrupt, dirs, disk, writes,
                   slideVars>>

Next ==
    \/ Discover
    \/ NoFiles
    \/ SetOutputDir
    \/ MkdirFails
    \/ ProcessFile
    \/ Finish
    \/ Rerun

Spec == Init /\ [][Next]_vars

(***************************************************************************)
(* Properties of main, checked under Spec.                                 *)
(***************************************************************************)
\* the loop over the work list has run to its end
LoopFinished == pc = "done" /\ output_dir # ""

RunWrites == {k \in 1..Len(writes) : writes[k].run = run}

\* C1: the exit status is 0 only if every discovered file was converted
\* without an error (success_count equals the number of discovered files), 1
\* otherwise; with an empty work list it is 1 and no conversion is attempted.
C1_ExitStatus ==
    pc = "done" =>
        /\ exit_status \in {0, 1}
        /\ exit_status = 0 <=>
              /\ pptx_files # <<>>
              /\ calls = pptx_files
              /\ errors = <<>>
              /\ \A k \in 1..Len(pptx_files) : pptx_files[k] \notin corrupt
              /\ success_count = Len(pptx_files)
        /\ pptx_files = <<>> =>
              /\ exit_status = 1
              /\ calls = <<>>
              /\ RunWrites = {}

C1_Witness ==
    /\ pc = "done"
    /\ exit_status = 1
    /\ Len(pptx_files) >= 2
    /\ success_count >= 1
    /\ success_count < Len(pptx_files)

\* C2: every file of the work list is passed to process_pptx_file exactly
\* once, in list order, however the earlier files ended, and every file that
\* raises nothing has its markdown written even when another file failed.
C2_BatchContinues ==
    /\ pc = "loop" => calls = SubSeq(pptx_files, 1, Len(calls)) /\ Len(calls) = fidx - 1
    /\ LoopFinished =>
          /\ calls = pptx_files
          /\ \A k \in 1..Len(pptx_files) :
                pptx_files[k] \notin corrupt =>
                    /\ \E w \in RunWrites : writes[w].src = pptx_files[k]
                    /\ \E e \in disk : e.dir = output_dir
                                       /\ e.name = Stem(pptx_files[k]) \o <<".", "m", "d">>
          /\ Len(errors) + Cardinality(RunWrites) = Len(pptx_files)

C2_Witness ==
    /\ LoopFinished
    /\ Len(pptx_files) >= 2
    /\ pptx_files[1] \in corrupt
    /\ pptx_files[Len(pptx_files)] \notin corrupt
    /\ \E w \in RunWrites : writes[w].src = pptx_files[Len(pptx_files)]

\* C4: one markdown file per converted document, named <stem>.md, written to
\* the document's own directory without the output flag and to the given
\* directory with it.
C4_OutputPlacement ==
    LoopFinished =>
        /\ \A w \in RunWrites :
              /\ writes[w].name = Stem(writes[w].src) \o <<".", "m", "d">>
              /\ writes[w].dir = IF output = NoOutput THEN Parent(writes[w].src)
                                 ELSE output
              /\ \E e \in disk : e.dir = writes[w].dir /\ e.name = writes[w].name
        /\ output # NoOutput => output \in dirs
        /\ Cardinality({<<writes[w].dir, writes[w].name>> : w \in RunWrites})
               = Cardinality({writes[w].src : w \in RunWrites})

\* C7: two runs on the same input to the same directory leave one file and
\* write the same text, also for slides with two or more distinct decorative
\* shapes.
C7_RunsWriteSameBytes ==
    /\ \A a, b \in 1..Len(writes) :
          (writes[a].src = writes[b].src /\ writes[a].dir = writes[b].dir) =>
              writes[a].content = writes[b].content
    /\ \A d, e \in disk : (d.dir = e.dir /\ d.name = e.name) => d = e

(***************************************************************************)
(* Properties of process_slide, checked under SlideSpec.                   *)
(***************************************************************************)
\* number of places where sub occurs in s
CountOcc(s, sub) ==
    Cardinality({k \in 0..(Len(s) - Len(sub)) : SubSeq(s, k + 1, k + Len(sub)) = sub})

TrimmedText(shape) == Strip(ShapeText(shape))

\* the placeholder types that mean Title or Header
SemanticTitleTypes == {PH_TITLE_CENTERED, PH_HEADER, PH_TITLE}

RuleOne(shape) ==
    /\ shape.shape_type = "PLACEHOLDER"
    /\ shape.ph_type \in SemanticTitleTypes
    /\ shape.has_text
    /\ TrimmedText(shape) # <<>>

RuleTwo(shape) ==
    /\ shape.has_text
    /\ TrimmedText(shape) # <<>>
    /\ Len(TrimmedText(shape)) < 100
    /\ \A k \in 1..Len(TrimmedText(shape)) : TrimmedText(shape)[k] # "\n"

OrderedRuleTitle(shapes) ==
    LET one == {k \in 1..Len(shapes) : RuleOne(shapes[k])}
        two == {k \in 1..Len(shapes) : RuleTwo(shapes[k])}
    IN  IF one # {} THEN TrimmedText(shapes[Min(one)])
        ELSE IF two # {} THEN TrimmedText(shapes[Min(two)])
        ELSE Untitled

\* C3: the resolved title is the trimmed text of the first placeholder of
\* semantic type Title or Header with non-empty text, else the trimmed text
\* of the first shape with non-empty one-line text under 100 characters,
\* else "Untitled".
C3_TitleByOrderedRule ==
    spc # "title" => title = OrderedRuleTitle(slide)

EmptyTable(shape) ==
    shape.has_table /\ (shape.rows = <<>> \/ shape.rows[1] = <<>>)

DataTableHeading == <<"#", "#", " ", "D", "a", "t", "a", " ", "T", "a", "b", "l", "e">>

\* C5: a table with no rows, or whose first row has no cells, yields an empty
\* grid and leaves nothing in the slide's markdown: the "## Data Table"
\* headings are as many as the tables that are not empty.
C5_EmptyTablesOmitted ==
    spc = "done" =>
        /\ \A k \in 1..Len(slide) :
               EmptyTable(slide[k]) => extract_table_data(slide[k]) = <<>>
        /\ CountOcc(slide_md, DataTableHeading) =
               Cardinality({k \in 1..Len(slide) :
                               slide[k].has_table /\ ~EmptyTable(slide[k])})

\* s with every backslash written twice
DoubleBackslashes(s) ==
    LET before(k) == Cardinality({j \in 1..(k - 1) : s[j] = "\\"})
        total == Len(s) + before(Len(s) + 1)
    IN  [m \in 1..total |->
            LET k == CHOOSE k \in 1..Len(s) :
                         k + before(k) <= m
                         /\ m <= k + before(k) + (IF s[k] = "\\" THEN 1 ELSE 0)
            IN  s[k]]

\* every backslash of s starts an escape pair (a doubled backslash or an
\* escaped pipe)
WellEscaped(s) ==
    \A k \in 1..Len(s) :
        (s[k] = "\\" /\ (k = Len(s) \/ s[k + 1] # "\\")) =>
            LET start == CHOOSE j \in 1..k :
                             /\ \A m \in j..k : s[m] = "\\"
                             /\ (j = 1 \/ s[j - 1] # "\\")
            IN  (k - start + 1) % 2 = 0 \/ (k < Len(s) /\ s[k + 1] = "|")

\* C6: every free text of the presentation reaches the markdown with its
\* backslashes doubled: the slide heading carries the escaped title, the
\* Visual Elements list the escaped descriptions, and no backslash of the
\* output stands alone.
C6_AllFreeTextEscaped ==
    spc = "done" =>
        /\ SubSeq(slide_md, 1, Len(SlideHeading(DoubleBackslashes(title), slide_num)))
               = SlideHeading(DoubleBackslashes(title), slide_num)
        /\ \A k \in 1..Len(other_shapes) :
               CountOcc(slide_md,
                        <<"\n", "-", " ">> \o DoubleBackslashes(other_shapes[k])
                            \o <<"\n">>) >= 1
        /\ WellEscaped(slide_md)

\* how many entries one step added to the three lists together
Growth ==
    (Len(content_sections') - Len(content_sections))
    + (Len(tables') - Len(tables))
    + (Len(other_shapes') - Len(other_shapes))

ShapeStep == spc = "loop" /\ i' = i + 1

\* C8 as stated: every shape lands in exactly one of the three lists.
C8_ExactlyOneCategory ==
    [][ShapeStep => Growth = 1]_vars

Decorative(shape) ==
    ~shape.has_table /\ (~shape.has_text \/ TrimmedText(shape) = <<>>)

\* C8 as amended: every shape lands in at most one of the three lists, and in
\* none of them exactly when it is the shape skipped as the title duplicate or
\* a table shape without rows; a shape with no text and no table adds one
\* description and neither a section nor a table.
C8_AtMostOneCategory ==
    [][ShapeStep =>
        /\ Growth \in {0, 1}
        /\ Len(content_sections') >= Len(content_sections)
        /\ Len(tables') >= Len(tables)
        /\ Len(other_shapes') >= Len(other_shapes)
        /\ Growth = 0 <=>
              \/ title_shape_found' # title_shape_found
              \/ (slide[i].has_table /\ slide[i].rows = <<>>)
        /\ Decorative(slide[i]) =>
              /\ Len(other_shapes') = Len(other_shapes) + 1
              /\ content_sections' = content_sections
              /\ tables' = tables
       ]_vars

C8_Witness ==
    /\ spc = "done"
    /\ title_shape_found
    /\ \E k \in 1..Len(slide) : Decorative(slide[k])
    /\ Len(other_shapes) = 1

\* a shape that carries content and text
Emittable(shape) == shape.has_text /\ TrimmedText(shape) # <<>>

\* the claim's reading: equal to or contained in the title, and under 100
\* characters in both cases
MatchUnder100(shape) ==
    /\ Emittable(shape)
    /\ Len(TrimmedText(shape)) < 100
    /\ (TrimmedText(shape) = title \/ CountOcc(title, TrimmedText(shape)) >= 1)

\* equal to the title whatever its length, or under 100 characters and
\* contained in the title
MatchEqualOrShortPart(shape) ==
    /\ Emittable(shape)
    /\ \/ TrimmedText(shape) = title
       \/ (Len(TrimmedText(shape)) < 100 /\ CountOcc(title, TrimmedText(shape)) >= 1)

Skipped ==
    /\ ~title_shape_found /\ title_shape_found'
    /\ Growth = 0

\* C9 as stated: the one shape suppressed is the first whose trimmed text is
\* under 100 characters and equals or is part of the title.
C9_SkipFirstUnder100 ==
    [][ShapeStep =>
        (Skipped <=> /\ MatchUnder100(slide[i])
                     /\ \A k \in 1..(i - 1) : ~MatchUnder100(slide[k]))
      ]_vars

\* C9 as amended: the one shape suppressed is the first text-bearing shape
\* whose trimmed text equals the title (whatever its length) or is under 100
\* characters and part of the title; every later shape is classified as if it
\* did not match.
C9_SkipFirstMatch ==
    [][ShapeStep =>
        /\ Skipped <=> /\ MatchEqualOrShortPart(slide[i])
                       /\ \A k \in 1..(i - 1) : ~MatchEqualOrShortPart(slide[k])
        /\ title_shape_found => title_shape_found'
        /\ (title_shape_found /\ Emittable(slide[i])) =>
               Len(content_sections') = Len(content_sections) + 1
      ]_vars

C9_Witness ==
    /\ spc = "done"
    /\ title_shape_found
    /\ \E k \in 2..Len(slide) :
           /\ MatchEqualOrShortPart(slide[k])
           /\ \E j \in 1..(k - 1) : MatchEqualOrShortPart(slide[j])
    /\ Len(content_sections) >= 1

\* the line the rule of the claim gives a body paragraph
RuleLine(para) ==
    IF ~para.is_bullet /\ Len(para.text) < 80
    THEN <<"#", "#", "#", " ">> \o DoubleBackslashes(para.text)
    ELSE IF para.is_bullet
         THEN Join(<<>>, [k \in 1..para.level |-> <<" ", " ">>]) \o <<"*", " ">>
              \o DoubleBackslashes(para.text)
         ELSE DoubleBackslashes(para.text)

\* C10: every body paragraph of every section is rendered as one line given
\* by the rule: sub-heading when non-bullet and its text is under 80
\* characters, else indented bullet when its bullet flag is set, else plain.
C10_BodyLineRule ==
    spc = "done" =>
        \A k \in 1..Len(content_sections) :
            \A j \in 1..Len(content_sections[k].paragraphs) :
                LET para == content_sections[k].paragraphs[j]
                IN  ~para.used_as_header =>
                        CountOcc(slide_md, <<"\n">> \o RuleLine(para) \o <<"\n">>) >= 1

====
